---------------------------- MODULE Spec2Model ----------------------------
(***************************************************************************)
(* Model of docker/speech/wake_word_detector.py: the capture callback of   *)
(* AudioProcessor (speech/silence counters, rolling buffer, trigger        *)
(* policy), process_audio (persist, transcribe), process_command (gate and *)
(* command mapper) and send_command_to_hass; of is_speech; and of the main *)
(* thread from the load of the module (initialize_asr_model) through       *)
(* AudioProcessor() and start() to the end of the process.                 *)
(*                                                                         *)
(* The callback runs on the capture thread, one frame at a time; pc is the *)
(* position of that thread inside audio_callback and the functions it      *)
(* calls.  Samples are identified by their arrival index (1, 2, 3, ...),   *)
(* 0 being a sample of the initial np.zeros buffer.  Time is counted in    *)
(* clock ticks, TicksPerSecond of them to a second.                        *)
(***************************************************************************)
EXTENDS Integers, Sequences, FiniteSets, TLC

----------------------------------------------------------------------------
(* Bounds of the model.                                                    *)

\* samples per second, standing for the 16000 of line 23
SampleRateScaled == 4

\* samples per frame, standing for the 1024 of line 25
ChunkSizeScaled == 2

\* seconds of audio in the buffer, standing for the 10 of line 26
BufferDurationScaled == 1

\* clock ticks per second
TicksPerSecond == 1

\* the clock stops advancing at MaxTime ticks
MaxTime == 6

\* no frame is delivered once MaxSamples samples have been appended
MaxSamples == 9

\* the longest text built from the vocabulary, in words
MaxWords == 4

----------------------------------------------------------------------------
(* Configuration (lines 22-52).  The sample rate, the chunk size and the    *)
(* buffer duration are scaled down (16000, 1024 and 10 in the source) so   *)
(* that the buffer and the frame thresholds stay small; every formula      *)
(* below is written in terms of the names, not of the values.              *)

SAMPLE_RATE == SampleRateScaled

CHUNK_SIZE == ChunkSizeScaled

BUFFER_DURATION == BufferDurationScaled

\* DETECTION_THRESHOLD = 0.5, in hundredths
DETECTION_THRESHOLD == 50

\* seconds
CONTINUOUS_TRANSCRIPTION_INTERVAL == 3

\* MIN_SPEECH_DURATION = 2.0 seconds
MIN_SPEECH_DURATION == 2

\* SILENCE_DURATION = 1.0 seconds
SILENCE_DURATION == 1

MAX_REPETITIONS == 1

\* NOISE_THRESHOLD = 0.08, in hundredths of the full amplitude
NOISE_THRESHOLD == 8

\* ECHO_THRESHOLD = 0.75, in hundredths
ECHO_THRESHOLD == 75

MAX_MODEL_LOAD_RETRIES == 3

\* seconds
MODEL_LOAD_RETRY_DELAY == 5

\* seconds
MODEL_DOWNLOAD_TIMEOUT == 600

WAKE_WORDS == <<"alexa">>

\* The value of os.environ.get('HASS_TOKEN') when the variable is not set.
None == "<None>"

----------------------------------------------------------------------------
VARIABLES
    WAKE_WORD_ENABLED,        \* line 43, fixed at start
    HASS_TOKEN,               \* line 52, fixed at start
    now,                      \* the wall clock, in ticks
    pc,                       \* position of the capture thread
    stream,                   \* "none" | "running" | "aborted" | "closed"
    audio_data,               \* the frame being processed by audio_callback
    buffer,                   \* self.buffer
    buffer_lock,              \* self.buffer_lock: "free" | "held"
    speech_frames,            \* self.speech_frames
    silence_frames,           \* self.silence_frames
    last_transcription_time,  \* self.last_transcription_time
    last_prediction,          \* self.last_prediction
    transcribed_text,         \* the text handed to process_command
    command,                  \* the (domain, service, entity_id) being sent
    total_appended,           \* history: number of samples delivered so far
    runs,                     \* history: lengths of the last speech/silence runs
    frame_log,                \* history: what happened for the current frame
    fire_times,               \* history: times at which should_transcribe fired
    cycle_log,                \* history: what the current trigger cycle did
    escaped,                  \* history: exception that left audio_callback
    main_pc,                  \* position of the main thread
    start_time,               \* line 59, in ticks
    attempt,                  \* the loop variable of line 60
    asr_model,                \* line 87: None until the model is loaded
    pending,                  \* the exception propagating in the main thread
    files,                    \* the names of the clips in /audio
    overwritten,              \* history: the names of the clips written over
    spectrum,                 \* what np.fft.fft gives is_speech for the frame
    verdict,                  \* the signals and the result of is_speech
    delivered,                \* samples delivered since the clock advanced
    main_log                  \* history: what the main thread did, in order

vars == <<WAKE_WORD_ENABLED, HASS_TOKEN, now, pc, stream, audio_data, buffer,
          buffer_lock, speech_frames, silence_frames, last_transcription_time,
          last_prediction, transcribed_text, command, total_appended,
          runs, frame_log, fire_times, cycle_log, escaped,
          main_pc, start_time, attempt, asr_model, pending,
          main_log, files, overwritten, spectrum, verdict, delivered>>

startup == <<main_pc, start_time, attempt, asr_model, pending, main_log>>

config == <<WAKE_WORD_ENABLED, HASS_TOKEN>>

counters == <<speech_frames, silence_frames, last_transcription_time>>

history == <<fire_times, cycle_log, escaped>>

storage == <<files, overwritten>>

detector == <<spectrum, verdict>>

----------------------------------------------------------------------------
(* Helpers.                                                                *)

\* Python's int(d * SAMPLE_RATE / CHUNK_SIZE) for a duration d >= 0 given in
\* whole seconds: truncation of a non-negative quotient.
FramesIn(d) == (d * SAMPLE_RATE) \div CHUNK_SIZE

\* len(self.buffer), line 235
Capacity == SAMPLE_RATE * BUFFER_DURATION

\* np.zeros(n)
Zeros(n) == [i \in 1..n |-> 0]

\* Variant of Roll: the shift reversed, np.roll(a, k)
RollRight(a, k) == [i \in 1..Len(a) |-> a[((i - 1 - k) % Len(a)) + 1]]

\* np.roll(a, -k): element i of the result is element (i + k) mod n of a
Roll(a, k) == [i \in 1..Len(a) |-> a[((i - 1 + k) % Len(a)) + 1]]

\* Variant of AssignTail: the frame written at the start, a[:len(data)] = data
AssignHead(a, data) ==
    [i \in 1..Len(a) |-> IF i <= Len(data) THEN data[i] ELSE a[i]]

\* a[-len(data):] = data, for 1 <= len(data) <= len(a)
AssignTail(a, data) ==
    [i \in 1..Len(a) |->
        IF i > Len(a) - Len(data) THEN data[i - (Len(a) - Len(data))] ELSE a[i]]

\* The samples n+1 .. n+k, in arrival order
Samples(n, k) == [i \in 1..k |-> n + i]

\* The lengths of the frames the callback is given
FrameLens == 1..Capacity

----------------------------------------------------------------------------
(* is_speech, lines 115-153.  A frame is a sequence of amplitudes in        *)
(* hundredths of the full amplitude (10 is 0.1).  np.fft.fft is not        *)
(* computed: what lines 121-124 and 140-141 make of it, speech_energy (in  *)
(* hundredths) and the frequencies of the three largest magnitudes (in     *)
(* Hz), is given with the frame.  The comparisons of real numbers are      *)
(* written without roots and quotients.                                    *)

RECURSIVE Sum(_)
Sum(a) == IF a = <<>> THEN 0 ELSE a[1] + Sum(Tail(a))

Abs(x) == IF x < 0 THEN -x ELSE x

\* Line 118 and line 146: sqrt(mean(square(a))) > threshold
RmsAbove(a, threshold) ==
    Sum([i \in 1..Len(a) |-> a[i] * a[i]]) > threshold * threshold * Len(a)

\* Lines 128-129: the autocorrelation at the lags 0 .. len(a) - 1; lag k is
\* element k + 1
Autocorr(a) ==
    [k \in 1..Len(a) |-> Sum([i \in 1..(Len(a) - k + 1) |-> a[i] * a[i + k - 1]])]

\* np.max
Max(a) == CHOOSE x \in {a[i] : i \in DOMAIN a} : \A i \in DOMAIN a : a[i] <= x

\* Line 130: the lags whose autocorrelation is above ECHO_THRESHOLD times
\* the largest one
Peaks(autocorr) ==
    {k \in 0..(Len(autocorr) - 1) : 100 * autocorr[k + 1] > ECHO_THRESHOLD * Max(autocorr)}

\* The elements of a set of numbers in increasing order (np.where)
RECURSIVE Ascending(_)
Ascending(S) ==
    IF S = {} THEN <<>>
    ELSE LET least == CHOOSE x \in S : \A y \in S : x <= y
         IN  <<least>> \o Ascending(S \ {least})

\* np.diff
Diff(a) == [i \in 1..(Len(a) - 1) |-> a[i + 1] - a[i]]

\* Line 132: np.std(d) < 0.1 * np.mean(d), for d not empty: with n = len(d),
\* S = sum(d) > 0 and Q = sum(d * d), std^2 = Q/n - (S/n)^2 and the
\* comparison is 100 * (n*Q - S^2) < S^2.
StdBelowTenthOfMean(d) ==
    LET n == Len(d)
        S == Sum(d)
        Q == Sum([i \in 1..n |-> d[i] * d[i]])
    IN  100 * (n * Q - S * S) < S * S

\* Lines 128-132: has_periodic_echo
HasPeriodicEcho(a) ==
    LET peaks        == Ascending(Peaks(Autocorr(a)))
        peak_spacing == Diff(peaks)
    IN  Len(peak_spacing) > 2 /\ StdBelowTenthOfMean(peak_spacing)

\* Lines 135-137: has_feedback_spikes
HasFeedbackSpikes(a, threshold) ==
    LET amplitude_envelope == [i \in 1..Len(a) |-> Abs(a[i])]
        amplitude_changes  == Diff(amplitude_envelope)
    IN  \E i \in DOMAIN amplitude_changes : Abs(amplitude_changes[i]) > threshold * 2

\* Line 142: has_feedback_freqs
HasFeedbackFreqs(peak_freqs) ==
    \E i \in DOMAIN peak_freqs : peak_freqs[i] > 2000 /\ peak_freqs[i] < 4000

NoSpectrum == [speech_energy |-> 0, peak_freqs |-> <<>>]

NoVerdict ==
    [rms |-> "none", speech_energy |-> "none", has_periodic_echo |-> "none",
     has_feedback_spikes |-> "none", has_feedback_freqs |-> "none",
     is_valid_speech |-> "none"]

Flag(b) == IF b THEN "true" ELSE "false"

\* Variant of is_speech: the rms condition of line 146 missing
is_speech_without_rms(a, fft, threshold) ==
    LET rms    == RmsAbove(a, threshold)
        energy == fft.speech_energy > threshold
        echo   == HasPeriodicEcho(a)
        spikes == HasFeedbackSpikes(a, threshold)
        freqs  == HasFeedbackFreqs(fft.peak_freqs)
    IN  [rms |-> Flag(rms), speech_energy |-> Flag(energy),
         has_periodic_echo |-> Flag(echo), has_feedback_spikes |-> Flag(spikes),
         has_feedback_freqs |-> Flag(freqs),
         is_valid_speech |-> Flag(energy /\ ~echo /\ ~spikes /\ ~freqs)]

\* Lines 115-153: the five signals and the value returned
is_speech(a, fft, threshold) ==
    LET rms    == RmsAbove(a, threshold)
        energy == fft.speech_energy > threshold
        echo   == HasPeriodicEcho(a)
        spikes == HasFeedbackSpikes(a, threshold)
        freqs  == HasFeedbackFreqs(fft.peak_freqs)
    IN  [rms |-> Flag(rms), speech_energy |-> Flag(energy),
         has_periodic_echo |-> Flag(echo), has_feedback_spikes |-> Flag(spikes),
         has_feedback_freqs |-> Flag(freqs),
         is_valid_speech |-> Flag(rms /\ energy /\ ~echo /\ ~spikes /\ ~freqs)]

----------------------------------------------------------------------------
(* AudioProcessor.audio_callback, lines 275-319.                           *)

\* Variant of UpdateCounters: line 289 missing, a speech frame leaves
\* silence_frames as it is
UpdateCountersKeepSilence(sp, sf, sil) ==
    IF sp
    THEN [speech_frames |-> sf + 1, silence_frames |-> sil]
    ELSE [speech_frames  |-> IF sil + 1 >= FramesIn(SILENCE_DURATION) THEN 0 ELSE sf,
          silence_frames |-> sil + 1]

\* Variant of UpdateCounters: > for >= in line 295
UpdateCountersLate(sp, sf, sil) ==
    IF sp
    THEN [speech_frames |-> sf + 1, silence_frames |-> 0]
    ELSE [speech_frames  |-> IF sil + 1 > FramesIn(SILENCE_DURATION) THEN 0 ELSE sf,
          silence_frames |-> sil + 1]

\* Variant of UpdateCounters: lines 295-296 missing, silence never erases
\* the speech counted
UpdateCountersNoReset(sp, sf, sil) ==
    IF sp
    THEN [speech_frames |-> sf + 1, silence_frames |-> 0]
    ELSE [speech_frames |-> sf, silence_frames |-> sil + 1]

\* Variant of UpdateCounters: line 288 assigns 1 where it adds 1
UpdateCountersAssign(sp, sf, sil) ==
    IF sp
    THEN [speech_frames |-> 1, silence_frames |-> 0]
    ELSE LET silence_frames_threshold == FramesIn(SILENCE_DURATION)
         IN  [speech_frames  |-> IF sil + 1 >= silence_frames_threshold
                                 THEN 0 ELSE sf,
              silence_frames |-> sil + 1]

\* Lines 286-296: the counters after a frame classified sp by is_speech.
UpdateCounters(sp, sf, sil) ==
    IF sp
    THEN [speech_frames |-> sf + 1, silence_frames |-> 0]
    ELSE LET silence_frames_threshold == FramesIn(SILENCE_DURATION)
         IN  [speech_frames  |-> IF sil + 1 >= silence_frames_threshold
                                 THEN 0 ELSE sf,
              silence_frames |-> sil + 1]

\* Variant of should_transcribe: line 270 missing, the time of the firing
\* is not kept
should_transcribe_no_time(wwe, current_time, last, sf) ==
    IF    ~wwe
       /\ current_time - last >= CONTINUOUS_TRANSCRIPTION_INTERVAL * TicksPerSecond
       /\ sf >= FramesIn(MIN_SPEECH_DURATION)
    THEN [ret |-> TRUE,  last_transcription_time |-> last, speech_frames |-> 0]
    ELSE [ret |-> FALSE, last_transcription_time |-> last, speech_frames |-> sf]

\* Variant of should_transcribe: > for >= in line 269
should_transcribe_more(wwe, current_time, last, sf) ==
    IF    ~wwe
       /\ current_time - last >= CONTINUOUS_TRANSCRIPTION_INTERVAL * TicksPerSecond
       /\ sf > FramesIn(MIN_SPEECH_DURATION)
    THEN [ret |-> TRUE,  last_transcription_time |-> current_time, speech_frames |-> 0]
    ELSE [ret |-> FALSE, last_transcription_time |-> last, speech_frames |-> sf]

\* Lines 258-273: the return value of should_transcribe() called at
\* current_time, with the values it leaves in the two fields it writes.
should_transcribe(wwe, current_time, last, sf) ==
    LET time_since_last   == current_time - last
        min_speech_frames == FramesIn(MIN_SPEECH_DURATION)
    IN  IF    ~wwe
           /\ time_since_last >= CONTINUOUS_TRANSCRIPTION_INTERVAL * TicksPerSecond
           /\ sf >= min_speech_frames
        THEN [ret |-> TRUE,  last_transcription_time |-> current_time,
              speech_frames |-> 0]
        ELSE [ret |-> FALSE, last_transcription_time |-> last,
              speech_frames |-> sf]

\* Variant of Detected: >= for > in line 310
DetectedAtThreshold(confidence) == confidence >= DETECTION_THRESHOLD

\* Line 310: confidence > DETECTION_THRESHOLD
Detected(confidence) == confidence > DETECTION_THRESHOLD

\* Lines 308-315: the index in WAKE_WORDS of the first label whose score is
\* detected, 0 when the loop ends without a detection.
FirstDetection(prediction) ==
    LET hits == {i \in 1..Len(WAKE_WORDS) : Detected(prediction[WAKE_WORDS[i]])}
    IN  IF hits = {} THEN 0 ELSE CHOOSE i \in hits : \A j \in hits : i <= j

\* The labels the wake word model scores, and the scores (in hundredths)
Labels == {"alexa"}

Scores == {0, 50, 51, 100}

NoFrameLog ==
    [speech |-> "none", updates |-> 0, appends |-> 0, st |-> "none",
     predicted |-> FALSE, label |-> 0, triggers |-> 0]

NoCycleLog ==
    [name |-> -1, read_lock |-> "none", clip |-> <<>>,
     text |-> <<>>, gate |-> "none", sent |-> <<>>, calls |-> <<>>]

\* Lines 275-296: a frame of L samples arrives and is classified.
audio_callback_vad(L, sp) ==
    /\ pc = "idle"
    /\ stream = "running"
    /\ total_appended + L <= MaxSamples
    /\ audio_data' = Samples(total_appended, L)
    /\ total_appended' = total_appended + L
    /\ LET c == UpdateCounters(sp, speech_frames, silence_frames)
       IN  /\ speech_frames' = c.speech_frames
           /\ silence_frames' = c.silence_frames
    /\ runs' = IF sp
               THEN [speech_run  |-> IF runs.silence_run > 0 THEN 1
                                     ELSE runs.speech_run + 1,
                     silence_run |-> 0]
               ELSE [runs EXCEPT !.silence_run = @ + 1]
    /\ frame_log' = [NoFrameLog EXCEPT !.speech = IF sp THEN "speech" ELSE "silence",
                                       !.updates = @ + 1]
    /\ pc' = "lock"
    /\ UNCHANGED <<config, detector, delivered, startup, storage, now, stream, buffer, buffer_lock,
                   last_transcription_time, last_prediction, transcribed_text,
                   command, history>>

\* Line 299: with self.buffer_lock (acquire)
audio_callback_lock ==
    /\ pc = "lock"
    /\ buffer_lock = "free"
    /\ buffer_lock' = "held"
    /\ pc' = "append"
    /\ UNCHANGED <<config, detector, delivered, startup, storage, now, stream, audio_data, buffer, counters,
                   last_prediction, transcribed_text, command, total_appended,
                   runs, frame_log, history>>

\* Lines 300-301, and the release of the lock at the end of the with block
audio_callback_append ==
    /\ pc = "append"
    /\ buffer' = AssignTail(Roll(buffer, Len(audio_data)), audio_data)
    /\ buffer_lock' = "free"
    /\ frame_log' = [frame_log EXCEPT !.appends = @ + 1]
    /\ pc' = "trigger"
    /\ UNCHANGED <<config, detector, delivered, startup, storage, now, stream, audio_data, counters,
                   last_prediction, transcribed_text, command, total_appended,
                   runs, history>>

\* Lines 303-315: wake word mode
audio_callback_wake(prediction) ==
    /\ pc = "trigger"
    /\ WAKE_WORD_ENABLED
    /\ last_prediction' = prediction
    /\ LET first == FirstDetection(prediction)
       IN  /\ frame_log' = [frame_log EXCEPT !.predicted = TRUE,
                                             !.label = first,
                                             !.triggers = IF first # 0 THEN @ + 1 ELSE @]
           /\ pc' = IF first # 0 THEN "process_audio" ELSE "return"
    /\ UNCHANGED <<config, detector, delivered, startup, storage, now, stream, audio_data, buffer, buffer_lock,
                   counters, transcribed_text, command, total_appended, runs,
                   history>>

\* Lines 316-319 with should_transcribe, lines 258-273: continuous mode
audio_callback_continuous ==
    /\ pc = "trigger"
    /\ ~WAKE_WORD_ENABLED
    /\ LET r == should_transcribe(WAKE_WORD_ENABLED, now,
                                  last_transcription_time, speech_frames)
       IN  /\ last_transcription_time' = r.last_transcription_time
           /\ speech_frames' = r.speech_frames
           /\ fire_times' = IF r.ret THEN Append(fire_times, now) ELSE fire_times
           /\ frame_log' = [frame_log EXCEPT !.st = IF r.ret THEN "true" ELSE "false",
                                             !.triggers = IF r.ret THEN @ + 1 ELSE @]
           /\ pc' = IF r.ret THEN "process_audio" ELSE "return"
    /\ UNCHANGED <<config, detector, delivered, startup, storage, now, stream, audio_data, buffer, buffer_lock,
                   silence_frames, last_prediction, transcribed_text, command,
                   total_appended, runs, cycle_log, escaped>>

\* The wall clock advances.  The one read of the clock that decides
\* anything is line 260, in should_transcribe, which is called in continuous
\* mode only (line 318): time passing anywhere else since the last read is
\* time passing before this one.  (SpecPersist follows the clock up to the
\* read of line 323 as well, with Tick_process_audio.)
Tick ==
    /\ pc = "trigger"
    /\ ~WAKE_WORD_ENABLED
    /\ now < MaxTime
    /\ now' = now + 1
    /\ UNCHANGED <<config, detector, delivered, startup, storage, pc, stream, audio_data, buffer, buffer_lock, counters,
                   last_prediction, transcribed_text, command, total_appended,
                   runs, frame_log, history>>

----------------------------------------------------------------------------
(* Text.  A text is a sequence of characters, a character a one-character  *)
(* string; a character outside ASCII is written by its code point          *)
(* ("U+00FC" is u with diaeresis).                                         *)

UpperCase == <<"A", "D", "H", "K", "L", "N", "S", "W", "U+00C3", "U+00DC">>

LowerCase == <<"a", "d", "h", "k", "l", "n", "s", "w", "U+00E3", "U+00FC">>

\* str.lower(), character by character
Lower(s) ==
    [i \in 1..Len(s) |->
        IF \E k \in 1..Len(UpperCase) : UpperCase[k] = s[i]
        THEN LowerCase[CHOOSE k \in 1..Len(UpperCase) : UpperCase[k] = s[i]]
        ELSE s[i]]

IsSpace(c) == c \in {" ", "\t", "\n"}

IsDigit(c) == c \in {"0", "1", "2", "3", "4", "5", "6", "7", "8", "9"}

\* str.strip(): without its leading and trailing whitespace
Strip(s) ==
    LET keep == {i \in 1..Len(s) : ~IsSpace(s[i])}
    IN  IF keep = {} THEN <<>>
        ELSE SubSeq(s, CHOOSE i \in keep : \A j \in keep : i <= j,
                       CHOOSE i \in keep : \A j \in keep : j <= i)

\* p occurs in s at position i
OccursAt(s, p, i) == i >= 1 /\ i + Len(p) - 1 <= Len(s) /\ SubSeq(s, i, i + Len(p) - 1) = p

\* p in s
Contains(s, p) == \E i \in 1..Len(s) : OccursAt(s, p, i)

\* s.count(p) from position i on: occurrences counted left to right, the
\* search resuming after the end of each occurrence found
RECURSIVE CountFrom(_, _, _)
CountFrom(s, p, i) ==
    IF i + Len(p) - 1 > Len(s) THEN 0
    ELSE IF OccursAt(s, p, i) THEN 1 + CountFrom(s, p, i + Len(p))
    ELSE CountFrom(s, p, i + 1)

Count(s, p) == CountFrom(s, p, 1)

\* s.split(): the maximal runs of non-whitespace characters, in order
RECURSIVE SplitFrom(_, _, _)
SplitFrom(s, i, cur) ==
    IF i > Len(s) THEN (IF cur = <<>> THEN <<>> ELSE <<cur>>)
    ELSE IF IsSpace(s[i])
         THEN (IF cur = <<>> THEN <<>> ELSE <<cur>>) \o SplitFrom(s, i + 1, <<>>)
         ELSE SplitFrom(s, i + 1, Append(cur, s[i]))

Split(s) == SplitFrom(s, 1, <<>>)

\* ' '.join(ws)
RECURSIVE Join(_)
Join(ws) ==
    IF ws = <<>> THEN <<>>
    ELSE IF Len(ws) = 1 THEN ws[1]
    ELSE ws[1] \o <<" ">> \o Join(Tail(ws))

W_schalte == <<"s", "c", "h", "a", "l", "t", "e">>

W_das == <<"d", "a", "s">>

W_licht == <<"l", "i", "c", "h", "t">>

W_im == <<"i", "m">>

W_wohnzimmer == <<"w", "o", "h", "n", "z", "i", "m", "m", "e", "r">>

W_aus == <<"a", "u", "s">>

W_an == <<"a", "n">>

W_bad == <<"b", "a", "d">>

W_und == <<"u", "n", "d">>

W_der == <<"d", "e", "r">>

W_Haus == <<"H", "a", "u", "s">>

W_guten == <<"g", "u", "t", "e", "n">>

W_tag == <<"t", "a", "g">>

W_kann == <<"k", "a", "n", "n">>

W_ausschalten == <<"a", "u", "s", "s", "c", "h", "a", "l", "t", "e", "n">>

W_einschalten == <<"e", "i", "n", "s", "c", "h", "a", "l", "t", "e", "n">>

W_abc == <<"a", "b", "c">>

W_123 == <<"1", "2", "3">>

W_kueche == <<"k", "U+00FC", "c", "h", "e">>

W_hund == <<"h", "u", "n", "d">>

W_mehr == <<"m", "e", "h", "r">>

----------------------------------------------------------------------------
(* process_command, lines 155-228.                                         *)

\* Line 165
noise_patterns ==
    << <<"l", "e", "i">>,
       <<"l", "o", "s">>,
       <<"u", "n", "d">>,
       <<"a", "b", "e", "r">>,
       <<"n", "i", "c", "h", "t", " ", "m", "e", "h", "r">>,
       <<"d", "a", "s", " ", "d", "a", "s">>,
       <<"u", "n", "d", " ", "u", "n", "d">> >>

\* Lines 190-195, in insertion order
commands ==
    << [key |-> W_ausschalten, value |-> "turn_off"],
       [key |-> W_einschalten, value |-> "turn_on"],
       [key |-> W_an,          value |-> "turn_on"],
       [key |-> W_aus,         value |-> "turn_off"] >>

\* Lines 197-202, in insertion order.  The second key is the six characters
\* the source file holds.
rooms ==
    << [key |-> W_wohnzimmer, value |-> "living_room"],
       [key |-> <<"k", "U+00C3", "U+00BC", "c", "h", "e">>, value |-> "kitchen"],
       [key |-> <<"s", "c", "h", "l", "a", "f", "z", "i", "m", "m", "e", "r">>, value |-> "bedroom"],
       [key |-> W_bad,        value |-> "bathroom"] >>

\* Line 160: len(text) < 5
TooShort(text) == Len(text) < 5

\* Line 160: any(char.isdigit() for char in text)
HasDigit(text) == \E i \in 1..Len(text) : IsDigit(text[i])

\* Line 167: text.count(pattern) > 1
NoisePattern(text, pattern) == Count(text, pattern) > 1

\* Variant of ExceedsRepetitions: >= for > in line 185
ReachesRepetitions(n) == n >= MAX_REPETITIONS

\* Line 185: phrase_counts[phrase] > MAX_REPETITIONS
ExceedsRepetitions(n) == n > MAX_REPETITIONS

\* Line 181: the overlapping 2-token phrases of words
Phrases(words) == [i \in 1..(Len(words) - 1) |-> Join(SubSeq(words, i, i + 1))]

\* Lines 182-187: phrase_counts[phrases[k]] right after phrases[k] is counted
PhraseCount(phrases, k) == Cardinality({j \in 1..k : phrases[j] = phrases[k]})

\* Lines 160-187 on the normalised text: the filter that returns, or "pass"
Gate(text) ==
    IF TooShort(text) \/ HasDigit(text) THEN "short_or_digit"
    ELSE IF \E k \in 1..Len(noise_patterns) : NoisePattern(text, noise_patterns[k])
    THEN "noise_pattern"
    ELSE LET words   == Split(text)
             phrases == Phrases(words)
         IN  IF Len(words) >= 2 /\ \E i \in 1..(Len(words) - 1) : words[i] = words[i + 1]
             THEN "word_repetition"
             ELSE IF    Len(words) >= 2
                     /\ \E k \in 1..Len(phrases) :
                            ExceedsRepetitions(PhraseCount(phrases, k))
             THEN "phrase_repetition"
             ELSE "pass"

\* Variant of Lookup: no break in lines 209 and 216, the last match wins
LookupLast(table, text) ==
    LET found == {i \in 1..Len(table) : Contains(text, table[i].key)}
    IN  IF found = {} THEN None
        ELSE table[CHOOSE i \in found : \A j \in found : j <= i].value

\* Lines 205-216: the value of the first entry of table, in order, whose key
\* is in text; None without one
Lookup(table, text) ==
    LET found == {i \in 1..Len(table) : Contains(text, table[i].key)}
    IN  IF found = {} THEN None
        ELSE table[CHOOSE i \in found : \A j \in found : i <= j].value

\* Lines 157-228: what process_command does with the text it is given: the
\* gate's verdict and the arguments of its call of send_command_to_hass,
\* <<>> when it makes none.
process_command(raw) ==
    LET text             == Strip(Lower(raw))
        gate             == Gate(text)
        detected_room    == Lookup(rooms, text)
        detected_command == Lookup(commands, text)
    IN  [gate |-> gate,
         call |-> IF gate = "pass" /\ detected_room # None /\ detected_command # None
                  THEN <<"light", detected_command, "light." \o detected_room>>
                  ELSE <<>>]

----------------------------------------------------------------------------
(* send_command_to_hass, lines 92-113.                                     *)

\* What requests.post and raise_for_status can do
PostOutcomes == {"ok", "http_error", "connection_error"}

\* Variant of send_command_to_hass: line 108 missing, the status of the
\* response is not looked at
send_command_to_hass_any_status(token, outcome) ==
    IF token = None \/ token = ""
    THEN [posts |-> 0, ret |-> FALSE]
    ELSE [posts |-> 1, ret |-> (outcome # "connection_error")]

\* Lines 94-113: the number of POST requests made and the value returned,
\* given the token and what the one request does
send_command_to_hass(token, outcome) ==
    IF token = None \/ token = ""
    THEN [posts |-> 0, ret |-> FALSE]
    ELSE [posts |-> 1, ret |-> (outcome = "ok")]

----------------------------------------------------------------------------
(* AudioProcessor.process_audio, lines 321-355, and what it calls.         *)

\* The texts the ASR model returns in the capture loop
AsrTexts ==
    { Join(<<W_schalte, W_das, W_licht, W_im, W_wohnzimmer, W_aus>>),
      Join(<<W_licht, W_im, W_wohnzimmer>>),
      <<" ">> \o Join(<<W_der, W_der, W_Haus>>) }

\* What writing the clip can do (lines 327-334): succeed, fail in wave.open,
\* fail in writeframes
SaveOutcomes == {"ok", "open_error", "write_error"}

\* Line 323: datetime.now().strftime("%Y%m%d_%H%M%S"), the time to the
\* second; the name of line 324 is known by it
Timestamp(current_time) == current_time \div TicksPerSecond

\* Line 333: the samples of self.buffer, each converted, in their order
Snapshot(b) == [i \in 1..Len(b) |-> b[i]]

\* The metadata records written next to the clips: process_audio writes the
\* .wav file and nothing else.
sidecars == {}

\* Lines 323-336: the clip is written under the name made from the clock.
\* wave.open(filename, 'wb') creates the file or empties the one of that
\* name; self.buffer is read at line 333 with buffer_lock as it is.  An error
\* of wave.open or writeframes is raised outside the try block and leaves
\* process_audio and audio_callback.
process_audio_save(result) ==
    /\ pc = "process_audio"
    /\ LET timestamp == Timestamp(now)
           opened    == result # "open_error"
       IN  /\ files' = IF opened THEN files \cup {timestamp} ELSE files
           /\ overwritten' = IF opened /\ timestamp \in files
                             THEN overwritten \cup {timestamp} ELSE overwritten
           /\ cycle_log' = IF opened
                           THEN [cycle_log EXCEPT
                                    !.name = timestamp,
                                    !.read_lock = buffer_lock,
                                    !.clip = IF result = "ok" THEN Snapshot(buffer)
                                             ELSE <<>>]
                           ELSE cycle_log
    /\ pc' = IF result = "ok" THEN "transcribe" ELSE "return"
    /\ escaped' = IF result = "ok" THEN escaped ELSE "OSError"
    /\ UNCHANGED <<config, detector, delivered, startup, now, stream, audio_data, buffer, buffer_lock,
                   counters, last_prediction, transcribed_text, command,
                   total_appended, runs, frame_log, fire_times>>

\* Lines 339-349 and 354-355: the ASR call returns a text, or raises and the
\* error is logged.
process_audio_transcribe(ok, text) ==
    /\ pc = "transcribe"
    /\ pc' = IF ok THEN "process_command" ELSE "return"
    /\ transcribed_text' = IF ok THEN text ELSE transcribed_text
    /\ cycle_log' = [cycle_log EXCEPT !.gate = IF ok THEN @ ELSE "asr_error"]
    /\ UNCHANGED <<config, detector, delivered, startup, storage, now, stream, audio_data, buffer, buffer_lock, counters,
                   last_prediction, command, total_appended, runs, frame_log,
                   fire_times, escaped>>

\* Lines 352 and 155-223: process_command up to its call of
\* send_command_to_hass, or to its return when it makes none
process_command_step ==
    /\ pc = "process_command"
    /\ LET r == process_command(transcribed_text)
       IN  /\ cycle_log' = [cycle_log EXCEPT !.text = transcribed_text,
                                             !.gate = r.gate,
                                             !.sent = r.call]
           /\ command' = r.call
           /\ pc' = IF r.call # <<>> THEN "send" ELSE "return"
    /\ UNCHANGED <<config, detector, delivered, startup, storage, now, stream, audio_data, buffer, buffer_lock, counters,
                   last_prediction, transcribed_text, total_appended, runs,
                   frame_log, fire_times, escaped>>

\* Lines 92-113 and 223-226: the call of send_command_to_hass
send_command_to_hass_step(outcome) ==
    /\ pc = "send"
    /\ LET r == send_command_to_hass(HASS_TOKEN, outcome)
       IN  cycle_log' = [cycle_log EXCEPT !.calls =
                            Append(@, [args    |-> command,
                                       outcome |-> IF r.posts = 0 THEN "not_sent"
                                                   ELSE outcome,
                                       posts   |-> r.posts,
                                       ret     |-> r.ret])]
    /\ pc' = "return"
    /\ UNCHANGED <<config, detector, delivered, startup, storage, now, stream, audio_data, buffer, buffer_lock, counters,
                   last_prediction, transcribed_text, command, total_appended,
                   runs, frame_log, fire_times, escaped>>

\* audio_callback returns, or the exception leaves it: the capture library
\* does not call a callback again that has raised.
audio_callback_return ==
    /\ pc = "return"
    /\ pc' = "idle"
    /\ stream' = IF escaped # "none" THEN "aborted" ELSE stream
    /\ audio_data' = <<>>
    /\ transcribed_text' = <<>>
    /\ command' = <<>>
    /\ frame_log' = NoFrameLog
    /\ cycle_log' = NoCycleLog
    /\ UNCHANGED <<config, detector, delivered, startup, storage, now, buffer, buffer_lock, counters, last_prediction,
                   total_appended, runs, fire_times, escaped>>

----------------------------------------------------------------------------
(* Module level: initialize_asr_model, lines 54-90.  The main thread runs  *)
(* it when the module is loaded; main_pc is the position of that thread.   *)

\* The time one call of WhisperModel(...) takes (line 67), in seconds: a
\* model on disk, a download, a slow download
LoadDurations == {1, 300, 600}

\* Variant of RetryAfter: the -1 of line 78 missing
RetryAfterLast(n) == n < MAX_MODEL_LOAD_RETRIES

\* Line 78: attempt < MAX_MODEL_LOAD_RETRIES - 1
RetryAfter(n) == n < MAX_MODEL_LOAD_RETRIES - 1

\* Line 62: time.time() - start_time > MODEL_DOWNLOAD_TIMEOUT
DownloadTimedOut(current_time, start) ==
    current_time - start > MODEL_DOWNLOAD_TIMEOUT * TicksPerSecond

\* An entry of main_log
Event(op, n, result) == [op |-> op, n |-> n, result |-> result]

\* Lines 56-60: the clock is read and the loop is entered; range(0) would
\* leave it at once.
initialize_asr_model_start ==
    /\ main_pc = "import"
    /\ start_time' = now
    /\ attempt' = 0
    /\ main_pc' = IF 0 < MAX_MODEL_LOAD_RETRIES THEN "asr_attempt" ELSE "asr_return"
    /\ UNCHANGED <<config, detector, delivered, storage, now, pc, stream, audio_data, buffer, buffer_lock,
                   counters, last_prediction, transcribed_text, command,
                   total_appended, runs, frame_log, history, asr_model, pending,
                   main_log>>

\* Lines 61-83, one iteration up to its return, its sleep or its raise: the
\* timeout check, then the load, which takes d seconds and succeeds or
\* raises.  The model returned at line 75 is bound to asr_model at line 87.
initialize_asr_model_attempt(d, ok) ==
    /\ main_pc = "asr_attempt"
    /\ LET timeout == DownloadTimedOut(now, start_time)
           result  == IF timeout THEN "TimeoutError"
                      ELSE IF ok THEN "ok" ELSE "load_error"
       IN  /\ now' = IF timeout THEN now ELSE now + d * TicksPerSecond
           /\ main_log' = Append(main_log, Event("attempt", attempt, result))
           /\ asr_model' = IF result = "ok" THEN "WhisperModel" ELSE asr_model
           /\ main_pc' = IF result = "ok" THEN "asr_return"
                         ELSE IF RetryAfter(attempt) THEN "asr_sleep"
                         ELSE "asr_raise"
    /\ UNCHANGED <<config, detector, delivered, storage, pc, stream, audio_data, buffer, buffer_lock,
                   counters, last_prediction, transcribed_text, command,
                   total_appended, runs, frame_log, history, start_time, attempt,
                   pending>>

\* Line 80 and the step of the for loop: the sleep, then the next iteration,
\* or the end of the function (and of its value, None) when range is used up
initialize_asr_model_sleep ==
    /\ main_pc = "asr_sleep"
    /\ now' = now + MODEL_LOAD_RETRY_DELAY * TicksPerSecond
    /\ main_log' = Append(main_log, Event("sleep", attempt, "ok"))
    /\ attempt' = attempt + 1
    /\ main_pc' = IF attempt + 1 < MAX_MODEL_LOAD_RETRIES THEN "asr_attempt"
                  ELSE "asr_return"
    /\ UNCHANGED <<config, detector, delivered, storage, pc, stream, audio_data, buffer, buffer_lock,
                   counters, last_prediction, transcribed_text, command,
                   total_appended, runs, frame_log, history, start_time, asr_model,
                   pending>>

\* Lines 86-90: the module goes on after the assignment of line 87, or the
\* exception of line 83 is raised again at line 90 and the process ends.
module_asr_model ==
    /\ main_pc \in {"asr_return", "asr_raise"}
    /\ main_pc' = IF main_pc = "asr_return" THEN "main" ELSE "aborted"
    /\ pending' = IF main_pc = "asr_return" THEN pending
                  ELSE main_log[Len(main_log)].result
    /\ UNCHANGED <<config, detector, delivered, storage, now, pc, stream, audio_data, buffer, buffer_lock,
                   counters, last_prediction, transcribed_text, command,
                   total_appended, runs, frame_log, history, start_time, attempt,
                   asr_model, main_log>>

----------------------------------------------------------------------------
(* The capture loop.                                                       *)

Init ==
    /\ WAKE_WORD_ENABLED \in BOOLEAN
    /\ HASS_TOKEN \in {None, "secret"}
    /\ now = 0
    /\ pc = "idle"
    /\ stream = "running"
    /\ audio_data = <<>>
    /\ buffer = Zeros(Capacity)
    /\ buffer_lock = "free"
    /\ speech_frames = 0
    /\ silence_frames = 0
    /\ last_transcription_time = 0
    /\ last_prediction = None
    /\ transcribed_text = <<>>
    /\ command = <<>>
    /\ total_appended = 0
    /\ runs = [speech_run |-> 0, silence_run |-> 0]
    /\ frame_log = NoFrameLog
    /\ fire_times = <<>>
    /\ cycle_log = NoCycleLog
    /\ escaped = "none"
    /\ main_pc = "loop"
    /\ start_time = 0
    /\ attempt = 0
    /\ asr_model = "WhisperModel"
    /\ pending = "none"
    /\ main_log = <<>>
    /\ files = {}
    /\ overwritten = {}
    /\ spectrum = NoSpectrum
    /\ verdict = NoVerdict
    /\ delivered = 0

Next ==
    \/ \E L \in FrameLens, sp \in BOOLEAN : audio_callback_vad(L, sp)
    \/ audio_callback_lock
    \/ audio_callback_append
    \/ \E prediction \in [Labels -> Scores] : audio_callback_wake(prediction)
    \/ audio_callback_continuous
    \/ \E result \in SaveOutcomes : process_audio_save(result)
    \/ \E ok \in BOOLEAN, text \in AsrTexts : process_audio_transcribe(ok, text)
    \/ process_command_step
    \/ \E outcome \in PostOutcomes : send_command_to_hass_step(outcome)
    \/ audio_callback_return
    \/ Tick

Spec == Init /\ [][Next]_vars

----------------------------------------------------------------------------
(* The capture loop with the clock followed up to line 323 as well, where  *)
(* the name of the clip is made, for frames of CHUNK_SIZE samples.         *)

\* Time passes between the trigger and the read of the clock at line 323.
Tick_process_audio ==
    /\ pc = "process_audio"
    /\ now < MaxTime
    /\ now' = now + 1
    /\ UNCHANGED <<config, detector, delivered, startup, storage, pc, stream, audio_data, buffer,
                   buffer_lock, counters, last_prediction, transcribed_text,
                   command, total_appended, runs, frame_log, history>>

NextPersist ==
    \/ \E sp \in BOOLEAN : audio_callback_vad(CHUNK_SIZE, sp)
    \/ audio_callback_lock
    \/ audio_callback_append
    \/ \E prediction \in [Labels -> Scores] : audio_callback_wake(prediction)
    \/ audio_callback_continuous
    \/ \E result \in SaveOutcomes : process_audio_save(result)
    \/ \E ok \in BOOLEAN, text \in AsrTexts : process_audio_transcribe(ok, text)
    \/ process_command_step
    \/ \E outcome \in PostOutcomes : send_command_to_hass_step(outcome)
    \/ audio_callback_return
    \/ Tick
    \/ Tick_process_audio

\* The dispatch has no part in the persistence: one value of the token
InitPersist == Init /\ HASS_TOKEN = None

SpecPersist == InitPersist /\ [][NextPersist]_vars

----------------------------------------------------------------------------
(* The capture loop in continuous mode, running for ever.  The code uses   *)
(* the clock in one way here, the difference current_time -                *)
(* last_transcription_time of line 263, compared with the interval: the    *)
(* clock is kept relative to last_transcription_time, and a difference     *)
(* beyond the interval by MaxOverdue ticks is not told from a larger one.  *)
(* The stream (lines 381-386: samplerate = SAMPLE_RATE, blocksize =        *)
(* CHUNK_SIZE) delivers no more samples than a tick holds before the clock *)
(* advances.  The histories of Spec are not kept.                          *)

\* ticks by which the difference of line 263 may exceed the interval
MaxOverdue == 1

\* silence frames in a row beyond the threshold of line 293
MaxExtraSilence == 1

LiveHorizon == CONTINUOUS_TRANSCRIPTION_INTERVAL * TicksPerSecond + MaxOverdue

\* Lines 381-382: the samples of one tick
SamplesPerTick == SAMPLE_RATE \div TicksPerSecond

Min(a, b) == IF a <= b THEN a ELSE b

\* Lines 275-296 for a frame of CHUNK_SIZE samples
audio_callback_vad_live(sp) ==
    /\ pc = "idle"
    /\ stream = "running"
    /\ delivered + CHUNK_SIZE <= SamplesPerTick
    /\ sp \/ silence_frames < FramesIn(SILENCE_DURATION) + MaxExtraSilence
    /\ audio_data' = Samples(delivered, CHUNK_SIZE)
    /\ delivered' = delivered + CHUNK_SIZE
    /\ LET c == UpdateCounters(sp, speech_frames, silence_frames)
       IN  /\ speech_frames' = c.speech_frames
           /\ silence_frames' = c.silence_frames
    /\ frame_log' = [NoFrameLog EXCEPT !.speech = IF sp THEN "speech" ELSE "silence",
                                       !.updates = @ + 1]
    /\ pc' = "lock"
    /\ UNCHANGED <<config, detector, startup, storage, now, stream, buffer, buffer_lock,
                   last_transcription_time, last_prediction, transcribed_text,
                   command, total_appended, runs, history>>

\* Lines 316-319 with should_transcribe, lines 258-273
audio_callback_continuous_live ==
    /\ pc = "trigger"
    /\ ~WAKE_WORD_ENABLED
    /\ LET r == should_transcribe(WAKE_WORD_ENABLED, now,
                                  last_transcription_time, speech_frames)
       IN  /\ last_transcription_time' = r.last_transcription_time
           /\ speech_frames' = r.speech_frames
           /\ frame_log' = [frame_log EXCEPT !.st = IF r.ret THEN "true" ELSE "false",
                                             !.triggers = IF r.ret THEN @ + 1 ELSE @]
           /\ pc' = IF r.ret THEN "process_audio" ELSE "return"
    /\ UNCHANGED <<config, detector, delivered, startup, storage, now, stream, audio_data, buffer, buffer_lock,
                   silence_frames, last_prediction, transcribed_text, command,
                   total_appended, runs, history>>

\* Lines 321-355, as far as the processor is concerned: process_audio
\* changes no field of it, and either returns or lets the error of lines
\* 327-334 out (the clip and the dispatch are followed in Spec).
process_audio_live(result) ==
    /\ pc = "process_audio"
    /\ escaped' = IF result = "ok" THEN escaped ELSE "OSError"
    /\ pc' = "return"
    /\ UNCHANGED <<config, detector, delivered, startup, storage, now, stream, audio_data, buffer, buffer_lock,
                   counters, last_prediction, transcribed_text, command,
                   total_appended, runs, frame_log, fire_times, cycle_log>>

\* The wall clock advances by one tick, between two callbacks or before the
\* read of line 260.
Tick_live ==
    /\ pc \in {"idle", "trigger"}
    /\ now' = Min(now - last_transcription_time + 1, LiveHorizon)
    /\ last_transcription_time' = 0
    /\ delivered' = 0
    /\ UNCHANGED <<config, detector, startup, storage, pc, stream, audio_data, buffer, buffer_lock,
                   speech_frames, silence_frames, last_prediction,
                   transcribed_text, command, total_appended, runs, frame_log,
                   history>>

\* The steps of the capture thread inside one callback
CallbackLive ==
    \/ audio_callback_lock
    \/ audio_callback_append
    \/ audio_callback_continuous_live
    \/ \E result \in {"ok", "open_error"} : process_audio_live(result)
    \/ audio_callback_return

NextLive ==
    \/ \E sp \in BOOLEAN : audio_callback_vad_live(sp)
    \/ CallbackLive
    \/ Tick_live

InitLive == Init /\ ~WAKE_WORD_ENABLED /\ HASS_TOKEN = None

\* The capture thread runs a callback to its end and the clock advances.
SpecLive ==
    /\ InitLive
    /\ [][NextLive]_vars
    /\ WF_vars(CallbackLive)
    /\ WF_vars(Tick_live)

----------------------------------------------------------------------------
(* __main__ and AudioProcessor.start, lines 231-256 and 357-415.  The      *)
(* callback runs on the capture thread while the main thread sleeps in the *)
(* loop of line 391; it is not part of these actions.                      *)

\* The most iterations of the loop of line 391 that are followed
MaxSleeps == 2

\* What opening the stream (line 381) and sd.sleep (line 392) can do: return,
\* or raise; Ctrl+C raises KeyboardInterrupt in the main thread
MainOutcomes == {"ok", "KeyboardInterrupt", "PortAudioError", "Exception"}

\* Variant of Release: the stream is not closed when the block is left
ReleaseNothing(s) == s

\* Line 381: the end of the with block stops and closes the stream it opened
Release(s) == IF s = "none" THEN "none" ELSE "closed"

\* Lines 394-406: the one exception start() does not raise again
Swallowed(exc) == exc = "KeyboardInterrupt"

\* Lines 409-411 and 231-256: AudioProcessor(), which loads the wake word
\* model in wake word mode; an error of the load is raised again (line 252).
AudioProcessor_init(ok) ==
    /\ main_pc = "main"
    /\ buffer' = Zeros(SAMPLE_RATE * BUFFER_DURATION)
    /\ buffer_lock' = "free"
    /\ last_transcription_time' = 0
    /\ silence_frames' = 0
    /\ speech_frames' = 0
    /\ last_prediction' = None
    /\ LET failed == WAKE_WORD_ENABLED /\ ~ok
       IN  /\ pending' = IF failed THEN "Exception" ELSE pending
           /\ main_pc' = IF failed THEN "init_raised" ELSE "start"
           /\ main_log' = Append(main_log,
                                 Event("__init__", 0, IF failed THEN "Exception" ELSE "ok"))
    /\ UNCHANGED <<config, detector, delivered, storage, now, pc, stream, audio_data, transcribed_text, command,
                   total_appended, runs, frame_log, history, start_time, attempt,
                   asr_model>>

\* Lines 359-386: start() up to the with statement, which opens and starts
\* the stream or raises.
start_open(result) ==
    /\ main_pc = "start"
    /\ stream' = IF result = "ok" THEN "running" ELSE stream
    /\ pending' = IF result = "ok" THEN pending ELSE result
    /\ main_pc' = IF result = "ok" THEN "loop" ELSE "except"
    /\ main_log' = Append(main_log, Event("open", 0, result))
    /\ UNCHANGED <<config, detector, delivered, storage, now, pc, audio_data, buffer, buffer_lock, counters,
                   last_prediction, transcribed_text, command, total_appended,
                   runs, frame_log, history, start_time, attempt, asr_model>>

\* Lines 391-392: one sd.sleep(1000), which returns after a second or is left
\* by an exception
start_sleep(result) ==
    /\ main_pc = "loop"
    /\ result = "ok" =>
           Cardinality({i \in DOMAIN main_log : main_log[i].op = "sd.sleep"}) < MaxSleeps
    /\ now' = IF result = "ok" THEN now + TicksPerSecond ELSE now
    /\ pending' = IF result = "ok" THEN pending ELSE result
    /\ main_pc' = IF result = "ok" THEN "loop" ELSE "with_exit"
    /\ main_log' = Append(main_log, Event("sd.sleep", 0, result))
    /\ UNCHANGED <<config, detector, delivered, storage, pc, stream, audio_data, buffer, buffer_lock, counters,
                   last_prediction, transcribed_text, command, total_appended,
                   runs, frame_log, history, start_time, attempt, asr_model>>

\* Line 381: the with block is left by the exception
start_with_exit ==
    /\ main_pc = "with_exit"
    /\ stream' = Release(stream)
    /\ main_pc' = "except"
    /\ UNCHANGED <<config, detector, delivered, storage, now, pc, audio_data, buffer, buffer_lock, counters,
                   last_prediction, transcribed_text, command, total_appended,
                   runs, frame_log, history, start_time, attempt, asr_model,
                   pending, main_log>>

\* Lines 394-406: the handlers of start()
start_except ==
    /\ main_pc = "except"
    /\ pending' = IF Swallowed(pending) THEN "none" ELSE pending
    /\ main_pc' = IF Swallowed(pending) THEN "start_returned" ELSE "start_raised"
    /\ main_log' = Append(main_log, Event("handled", 0, pending))
    /\ UNCHANGED <<config, detector, delivered, storage, now, pc, stream, audio_data, buffer, buffer_lock,
                   counters, last_prediction, transcribed_text, command,
                   total_appended, runs, frame_log, history, start_time, attempt,
                   asr_model>>

\* Lines 412-415: start() has returned and the program ends, or the
\* exception of start() or of AudioProcessor() is raised again at line 415
\* and the process ends with it.
main_end ==
    /\ main_pc \in {"start_returned", "start_raised", "init_raised"}
    /\ main_pc' = IF main_pc = "start_returned" THEN "exited" ELSE "aborted"
    /\ UNCHANGED <<config, detector, delivered, storage, now, pc, stream, audio_data, buffer, buffer_lock,
                   counters, last_prediction, transcribed_text, command,
                   total_appended, runs, frame_log, history, start_time, attempt,
                   asr_model, pending, main_log>>

\* The program from the loading of the module to its end
InitMain ==
    /\ WAKE_WORD_ENABLED \in BOOLEAN
    /\ HASS_TOKEN \in {None, "secret"}
    /\ now = 0
    /\ pc = "idle"
    /\ stream = "none"
    /\ audio_data = <<>>
    /\ buffer = <<>>
    /\ buffer_lock = "free"
    /\ speech_frames = 0
    /\ silence_frames = 0
    /\ last_transcription_time = 0
    /\ last_prediction = None
    /\ transcribed_text = <<>>
    /\ command = <<>>
    /\ total_appended = 0
    /\ runs = [speech_run |-> 0, silence_run |-> 0]
    /\ frame_log = NoFrameLog
    /\ fire_times = <<>>
    /\ cycle_log = NoCycleLog
    /\ escaped = "none"
    /\ main_pc = "import"
    /\ start_time = 0
    /\ attempt = 0
    /\ asr_model = None
    /\ pending = "none"
    /\ main_log = <<>>
    /\ files = {}
    /\ overwritten = {}
    /\ spectrum = NoSpectrum
    /\ verdict = NoVerdict
    /\ delivered = 0

NextMain ==
    \/ initialize_asr_model_start
    \/ \E d \in LoadDurations, ok \in BOOLEAN : initialize_asr_model_attempt(d, ok)
    \/ initialize_asr_model_sleep
    \/ module_asr_model
    \/ \E ok \in BOOLEAN : AudioProcessor_init(ok)
    \/ \E result \in MainOutcomes : start_open(result)
    \/ \E result \in MainOutcomes : start_sleep(result)
    \/ start_with_exit
    \/ start_except
    \/ main_end

SpecMain == InitMain /\ [][NextMain]_vars

----------------------------------------------------------------------------
(* is_speech on its own: a frame and its spectrum, handed to is_speech     *)
(* once.                                                                   *)

\* The longest frame built from Amplitudes, in samples
MaxShortFrame == 3

\* The longest frame of equal samples, in samples
MaxPlateau == 13

\* 0, 0.1 of either sign, 0.3
Amplitudes == {0, 10, -10, 30}

\* n samples of 0.1
Plateau(n) == [i \in 1..n |-> 10]

\* A frame whose autocorrelation is high at the lags 0, 1, 2 and 4
UnevenFrame ==
    <<20, 20, 20, 0, 20, 20, 20, 10, 20, 10, 20, 20, 20, 10, 20, 10, 10, 10>>

Frames ==
    UNION {[1..n -> Amplitudes] : n \in 1..MaxShortFrame}
        \cup {Plateau(n) : n \in 9..MaxPlateau}
        \cup {UnevenFrame}

\* speech_energy at the threshold and above it; three peak frequencies
\* outside the band of line 142, on its two ends, and inside it
Spectra ==
    [speech_energy : {NOISE_THRESHOLD, NOISE_THRESHOLD + 1},
     peak_freqs    : {<<0, 500, 1000>>, <<500, 2000, 4000>>, <<100, 3000, 5000>>}]

\* Line 287: is_speech(audio_data), with the default threshold of line 115
is_speech_step ==
    /\ pc = "is_speech"
    /\ verdict' = is_speech(audio_data, spectrum, NOISE_THRESHOLD)
    /\ pc' = "return"
    /\ UNCHANGED <<config, startup, storage, now, stream, audio_data, buffer,
                   buffer_lock, counters, last_prediction, transcribed_text,
                   command, total_appended, runs, frame_log, history, spectrum,
                   delivered>>

InitSpeech ==
    /\ WAKE_WORD_ENABLED = FALSE
    /\ HASS_TOKEN = None
    /\ now = 0
    /\ pc = "is_speech"
    /\ stream = "running"
    /\ audio_data \in Frames
    /\ buffer = Zeros(Capacity)
    /\ buffer_lock = "free"
    /\ speech_frames = 0
    /\ silence_frames = 0
    /\ last_transcription_time = 0
    /\ last_prediction = None
    /\ transcribed_text = <<>>
    /\ command = <<>>
    /\ total_appended = 0
    /\ runs = [speech_run |-> 0, silence_run |-> 0]
    /\ frame_log = NoFrameLog
    /\ fire_times = <<>>
    /\ cycle_log = NoCycleLog
    /\ escaped = "none"
    /\ main_pc = "loop"
    /\ start_time = 0
    /\ attempt = 0
    /\ asr_model = "WhisperModel"
    /\ pending = "none"
    /\ main_log = <<>>
    /\ files = {}
    /\ overwritten = {}
    /\ spectrum \in Spectra
    /\ verdict = NoVerdict
    /\ delivered = 0

NextSpeech == is_speech_step

SpecSpeech == InitSpeech /\ [][NextSpeech]_vars

----------------------------------------------------------------------------
(* process_command and send_command_to_hass on their own: the texts an ASR *)
(* model may return, each handed to process_command once.  The token is    *)
(* read by send_command_to_hass alone, which does not look at the text:    *)
(* without a token the example texts are enough.                           *)

Vocabulary == {W_licht, W_wohnzimmer, W_aus, W_an, W_bad, W_und, W_kann}

ExampleTexts ==
    { Join(<<W_schalte, W_das, W_licht, W_im, W_wohnzimmer, W_aus>>),
      <<" ">> \o Join(<<W_der, W_der, W_Haus>>),
      Join(<<W_guten, W_tag, W_guten, W_tag, W_guten, W_tag>>),
      Join(<<W_123, W_abc>>),
      Join(<<W_licht, W_im, W_wohnzimmer>>),
      Join(<<W_hund, W_und, W_licht>>),
      <<" ", "W", "o", "h", "n", "z", "i", "m", "m", "e", "r", " ", " ",
        "L", "i", "c", "h", "t", "\t", "A", "N", "\n">>,
      Join(<<<<"a">> \o W_das, W_das, W_das \o <<"h">>>>),
      Join(<<W_licht, W_im, W_bad, W_ausschalten>>),
      Join(<<W_bad, W_einschalten>>),
      Join(<<W_licht, W_kueche, W_an>>),
      <<>> }

CmdTexts ==
    {Join(ws) : ws \in UNION {[1..n -> Vocabulary] : n \in 1..MaxWords}}
        \cup ExampleTexts

InitCmd ==
    /\ WAKE_WORD_ENABLED = FALSE
    /\ HASS_TOKEN \in {None, "", "secret"}
    /\ now = 0
    /\ pc = "process_command"
    /\ stream = "running"
    /\ audio_data = <<>>
    /\ buffer = Zeros(Capacity)
    /\ buffer_lock = "free"
    /\ speech_frames = 0
    /\ silence_frames = 0
    /\ last_transcription_time = 0
    /\ last_prediction = None
    /\ transcribed_text \in IF HASS_TOKEN = "secret" THEN CmdTexts ELSE ExampleTexts
    /\ command = <<>>
    /\ total_appended = 0
    /\ runs = [speech_run |-> 0, silence_run |-> 0]
    /\ frame_log = NoFrameLog
    /\ fire_times = <<>>
    /\ cycle_log = NoCycleLog
    /\ escaped = "none"
    /\ main_pc = "loop"
    /\ start_time = 0
    /\ attempt = 0
    /\ asr_model = "WhisperModel"
    /\ pending = "none"
    /\ main_log = <<>>
    /\ files = {}
    /\ overwritten = {}
    /\ spectrum = NoSpectrum
    /\ verdict = NoVerdict
    /\ delivered = 0

NextCmd ==
    \/ process_command_step
    \/ \E outcome \in PostOutcomes : send_command_to_hass_step(outcome)

SpecCmd == InitCmd /\ [][NextCmd]_vars

----------------------------------------------------------------------------
(* Properties.                                                             *)

\* The number of samples appended to the buffer so far: the frame being
\* processed is counted in total_appended when it arrives and is in the
\* buffer after line 301.
Appended ==
    IF pc \in {"lock", "append"} THEN total_appended - Len(audio_data)
    ELSE total_appended

\* C1: after any sequence of appends of frames of length at most the
\* capacity, the buffer has SAMPLE_RATE * BUFFER_DURATION samples, and once
\* more samples than that have been appended it holds exactly the most
\* recent ones, oldest first and newest last.
C1_RollingBuffer ==
    /\ Len(buffer) = SAMPLE_RATE * BUFFER_DURATION
    /\ Appended > SAMPLE_RATE * BUFFER_DURATION =>
           \A i \in 1..(SAMPLE_RATE * BUFFER_DURATION) :
               buffer[i] = Appended - SAMPLE_RATE * BUFFER_DURATION + i

\* A frame that is neither one sample nor a whole buffer has been appended
\* to a buffer that was already full of delivered samples.
C1_Witness ==
    /\ pc = "trigger"
    /\ Len(audio_data) > 1
    /\ Len(audio_data) < SAMPLE_RATE * BUFFER_DURATION
    /\ total_appended - Len(audio_data) > SAMPLE_RATE * BUFFER_DURATION

\* C2: in continuous mode should_transcribe() never returns true at two
\* times less than CONTINUOUS_TRANSCRIPTION_INTERVAL seconds apart.
C2_FiringsApart ==
    \A i, j \in DOMAIN fire_times :
        i < j => fire_times[j] - fire_times[i]
                     >= CONTINUOUS_TRANSCRIPTION_INTERVAL * TicksPerSecond

\* should_transcribe() has returned true twice.
C2_Witness == ~WAKE_WORD_ENABLED /\ Len(fire_times) >= 2

\* The step in which the trigger is decided (lines 303-319)
TriggerStep == pc = "trigger" /\ pc' # "trigger"

\* C3: in continuous mode should_transcribe() returns true exactly when the
\* time since last_transcription_time is at least the interval and
\* speech_frames is at least int(MIN_SPEECH_DURATION * SAMPLE_RATE /
\* CHUNK_SIZE); returning true it sets speech_frames to 0 and
\* last_transcription_time to the current time, returning false it leaves
\* the two counters and last_transcription_time as they are.
C3_ShouldTranscribe ==
    [][(TriggerStep /\ ~WAKE_WORD_ENABLED) =>
          /\ frame_log'.st \in {"true", "false"}
          /\ (frame_log'.st = "true") <=>
                 (/\ now - last_transcription_time
                         >= CONTINUOUS_TRANSCRIPTION_INTERVAL * TicksPerSecond
                  /\ speech_frames >= (MIN_SPEECH_DURATION * SAMPLE_RATE) \div CHUNK_SIZE)
          /\ (frame_log'.st = "true") =>
                 /\ speech_frames' = 0
                 /\ last_transcription_time' = now
                 /\ silence_frames' = silence_frames
          /\ (frame_log'.st = "false") =>
                 UNCHANGED <<speech_frames, silence_frames, last_transcription_time>>
      ]_vars

\* should_transcribe() has just returned true, for the second time.
C3_Witness ==
    /\ pc = "process_audio"
    /\ frame_log.st = "true"
    /\ speech_frames = 0
    /\ last_transcription_time = now
    /\ Len(fire_times) = 2

\* The step in which a frame arrives and is classified (lines 275-296)
FrameStep == pc = "idle" /\ pc' = "lock"

\* C4: on every frame exactly one of the two counters is incremented, by
\* one: a speech frame increments speech_frames and resets silence_frames, a
\* non-speech frame increments silence_frames and does not increment
\* speech_frames.  Nothing else increments a counter.
C4_OneCounterPerFrame ==
    [][/\ FrameStep =>
            /\ frame_log'.speech \in {"speech", "silence"}
            /\ (speech_frames' = speech_frames + 1) # (silence_frames' = silence_frames + 1)
            /\ frame_log'.speech = "speech" =>
                   speech_frames' = speech_frames + 1 /\ silence_frames' = 0
            /\ frame_log'.speech = "silence" =>
                   silence_frames' = silence_frames + 1 /\ speech_frames' <= speech_frames
       /\ ~FrameStep =>
            speech_frames' <= speech_frames /\ silence_frames' = silence_frames
      ]_vars

\* A non-speech frame has followed a speech frame that followed a
\* non-speech frame.
C4_Witness ==
    /\ pc = "lock"
    /\ frame_log.speech = "silence"
    /\ silence_frames = 1
    /\ speech_frames > 0
    /\ runs.speech_run < speech_frames

\* C5: after a run of consecutive non-speech frames whose length reaches
\* int(SILENCE_DURATION * SAMPLE_RATE / CHUNK_SIZE), speech_frames is 0,
\* whether or not should_transcribe has fired.
C5_SilenceErasesSpeech ==
    runs.silence_run >= (SILENCE_DURATION * SAMPLE_RATE) \div CHUNK_SIZE =>
        speech_frames = 0

\* Two seconds of speech frames, then a second and a half of non-speech
\* frames, and no firing of should_transcribe.
C5_Witness ==
    /\ ~WAKE_WORD_ENABLED
    /\ fire_times = <<>>
    /\ runs.speech_run * CHUNK_SIZE >= 2 * SAMPLE_RATE
    /\ 2 * runs.silence_run * CHUNK_SIZE >= 3 * SAMPLE_RATE
    /\ speech_frames = 0

\* C6: the two trigger modes exclude each other and a frame triggers at most
\* one transcription.  In wake word mode process_audio is called for a frame
\* exactly when a label of WAKE_WORDS has a score strictly above
\* DETECTION_THRESHOLD, the first such label in list order being the one
\* that triggers, and should_transcribe does not fire; in continuous mode
\* the wake word model is not consulted and process_audio is called exactly
\* when should_transcribe() returns true.
C6_TriggerModes ==
    [][/\ (TriggerStep /\ WAKE_WORD_ENABLED) =>
            /\ frame_log'.predicted
            /\ (pc' = "process_audio") <=>
                   \E i \in DOMAIN WAKE_WORDS :
                       last_prediction'[WAKE_WORDS[i]] > DETECTION_THRESHOLD
            /\ (pc' = "process_audio") =>
                   /\ frame_log'.label \in DOMAIN WAKE_WORDS
                   /\ last_prediction'[WAKE_WORDS[frame_log'.label]] > DETECTION_THRESHOLD
                   /\ \A j \in 1..(frame_log'.label - 1) :
                          ~(last_prediction'[WAKE_WORDS[j]] > DETECTION_THRESHOLD)
            /\ frame_log'.st = "none"
            /\ fire_times' = <<>>
            /\ UNCHANGED <<speech_frames, last_transcription_time>>
       /\ (TriggerStep /\ ~WAKE_WORD_ENABLED) =>
            /\ ~frame_log'.predicted
            /\ last_prediction' = None
            /\ (pc' = "process_audio") <=> (frame_log'.st = "true")
       /\ TriggerStep =>
            /\ pc' \in {"process_audio", "return"}
            /\ frame_log'.triggers = IF pc' = "process_audio" THEN 1 ELSE 0
       /\ (pc' = "process_audio" /\ pc # "process_audio") => TriggerStep
      ]_vars

\* In wake word mode a score just above the threshold has triggered.
C6_Witness ==
    /\ WAKE_WORD_ENABLED
    /\ pc = "process_audio"
    /\ frame_log.triggers = 1
    /\ last_prediction[WAKE_WORDS[1]] = DETECTION_THRESHOLD + 1

\* The text process_command works on (line 157) in the current cycle
CycleText == Strip(Lower(cycle_log.text))

\* process_command has run on a text in the current cycle
CommandRan == cycle_log.gate \notin {"none", "asr_error"}

\* The four filters of the gate, on a normalised text.  A pattern occurs
\* more than once when it occurs at two places that do not overlap, as
\* str.count counts.
FilterShortOrDigit(text) ==
    Len(text) < 5 \/ \E i \in DOMAIN text : IsDigit(text[i])

FilterNoisePattern(text) ==
    \E k \in DOMAIN noise_patterns : \E i, j \in DOMAIN text :
        /\ i + Len(noise_patterns[k]) <= j
        /\ OccursAt(text, noise_patterns[k], i)
        /\ OccursAt(text, noise_patterns[k], j)

FilterAdjacentTokens(text) ==
    \E i \in DOMAIN Split(text) :
        i + 1 \in DOMAIN Split(text) /\ Split(text)[i] = Split(text)[i + 1]

FilterRepeatedPhrase(text) ==
    LET words == Split(text)
    IN  \E i, j \in DOMAIN words :
            /\ i < j
            /\ j + 1 \in DOMAIN words
            /\ words[i] = words[j]
            /\ words[i + 1] = words[j + 1]

\* C7: process_command rejects a text, without dispatch and without error,
\* if and only if one of the four filters holds of it: shorter than 5
\* characters once stripped or holding a digit; a noise pattern more than
\* once; two adjacent tokens identical; a 2-token phrase at least twice.  A
\* text of which none holds reaches the command mapper, and a rejected text
\* causes no call of send_command_to_hass.
C7_Gate ==
    CommandRan =>
        /\ (cycle_log.gate # "pass") <=>
               \/ FilterShortOrDigit(CycleText)
               \/ FilterNoisePattern(CycleText)
               \/ FilterAdjacentTokens(CycleText)
               \/ FilterRepeatedPhrase(CycleText)
        /\ (cycle_log.gate # "pass") =>
               /\ cycle_log.sent = <<>>
               /\ cycle_log.calls = <<>>
               /\ pc = "return"
               /\ escaped = "none"

\* A text of four words is rejected by the phrase filter alone.
C7_Witness ==
    /\ cycle_log.gate = "phrase_repetition"
    /\ Len(Split(CycleText)) = 4
    /\ ~FilterShortOrDigit(CycleText)
    /\ ~FilterNoisePattern(CycleText)
    /\ ~FilterAdjacentTokens(CycleText)

\* Entry i is the first entry of table, in declared order, whose key occurs
\* in text.
FirstEntry(table, text, i) ==
    /\ i \in DOMAIN table
    /\ Contains(text, table[i].key)
    /\ \A j \in 1..(i - 1) : ~Contains(text, table[j].key)

\* C8: for a text that passes the gate, the mapper takes the first entry of
\* the room table and the first entry of the action table that occur in the
\* lower-cased text, and calls send_command_to_hass exactly once, with
\* ("light", action, "light." + room), if and only if it found both;
\* otherwise it makes no call.  "schalte das licht im wohnzimmer aus" gives
\* turn_off on light.living_room.
C8_Mapper ==
    (CommandRan /\ cycle_log.gate = "pass") =>
        LET text == Lower(cycle_log.text)
        IN  /\ \A r \in DOMAIN rooms, c \in DOMAIN commands :
                   (FirstEntry(rooms, text, r) /\ FirstEntry(commands, text, c)) =>
                       cycle_log.sent = <<"light", commands[c].value,
                                          "light." \o rooms[r].value>>
            /\ (   (\A r \in DOMAIN rooms : ~Contains(text, rooms[r].key))
                \/ (\A c \in DOMAIN commands : ~Contains(text, commands[c].key))) =>
                   cycle_log.sent = <<>>
            /\ pc = "send" =>
                   cycle_log.sent # <<>> /\ command = cycle_log.sent /\ cycle_log.calls = <<>>
            /\ pc = "return" =>
                   IF cycle_log.sent = <<>> THEN cycle_log.calls = <<>>
                   ELSE /\ Len(cycle_log.calls) = 1
                        /\ cycle_log.calls[1].args = cycle_log.sent
            /\ cycle_log.text = Join(<<W_schalte, W_das, W_licht, W_im, W_wohnzimmer, W_aus>>) =>
                   cycle_log.sent = <<"light", "turn_off", "light.living_room">>

\* The example sentence has been dispatched.
C8_Witness ==
    /\ pc = "return"
    /\ cycle_log.text = Join(<<W_schalte, W_das, W_licht, W_im, W_wohnzimmer, W_aus>>)
    /\ Len(cycle_log.calls) = 1
    /\ cycle_log.calls[1].args = <<"light", "turn_off", "light.living_room">>

\* C9: an error raised during a trigger cycle (persisting the clip, the ASR
\* call, gating, mapping, dispatch) stays inside process_audio: it does not
\* leave audio_callback and the capture goes on.
C9_ErrorsContained == escaped = "none" /\ stream = "running"

\* The step in which send_command_to_hass runs (lines 92-113)
SendStep == pc = "send" /\ pc' # "send"

\* C10: send_command_to_hass does not raise and does not retry: without a
\* token it returns False and makes no request; with one it makes exactly
\* one POST and returns True if and only if the request succeeded; whatever
\* happens, the capture, the counters and the buffer are left as they are.
C10_SendCommand ==
    [][SendStep =>
          LET call == cycle_log'.calls[Len(cycle_log'.calls)]
          IN  /\ Len(cycle_log'.calls) = Len(cycle_log.calls) + 1
              /\ call.args = command
              /\ (HASS_TOKEN = None \/ HASS_TOKEN = "") =>
                     call.posts = 0 /\ ~call.ret
              /\ ~(HASS_TOKEN = None \/ HASS_TOKEN = "") =>
                     call.posts = 1 /\ (call.ret <=> call.outcome = "ok")
              /\ pc' = "return"
              /\ UNCHANGED <<escaped, stream, buffer, buffer_lock, speech_frames,
                             silence_frames, last_transcription_time,
                             total_appended, audio_data>>
      ]_vars

\* With a token, the one request got an error status and the call returned False.
C10_Witness ==
    /\ pc = "return"
    /\ HASS_TOKEN = "secret"
    /\ Len(cycle_log.calls) = 1
    /\ cycle_log.calls[1].outcome = "http_error"
    /\ cycle_log.calls[1].posts = 1
    /\ ~cycle_log.calls[1].ret

\* The entries of main_log written by the iterations of the loop of line 60
AttemptIdx == {i \in DOMAIN main_log : main_log[i].op = "attempt"}

\* The main thread is past initialize_asr_model and line 87
AsrLoaded == main_pc \notin {"import", "asr_attempt", "asr_sleep", "asr_raise", "aborted"}

\* C11: initialize_asr_model ends after at most MAX_MODEL_LOAD_RETRIES
\* attempts.  A successful attempt is the last one and its model is the one
\* returned; a failed attempt that is not the last is followed by one wait of
\* MODEL_LOAD_RETRY_DELAY and then the next attempt, and no wait follows the
\* last attempt; when every attempt has failed the failure of the last one is
\* raised and the process ends with it; the function never returns without
\* a model.
C11_BoundedLoad ==
    /\ Cardinality(AttemptIdx) <= MAX_MODEL_LOAD_RETRIES
    /\ main_pc \in {"asr_attempt", "asr_sleep"} => attempt < MAX_MODEL_LOAD_RETRIES
    /\ \A i \in AttemptIdx :
           /\ main_log[i].n = Cardinality({j \in AttemptIdx : j < i})
           /\ main_log[i].result = "ok" =>
                  \A j \in DOMAIN main_log :
                      j > i => main_log[j].op \notin {"attempt", "sleep"}
           /\ (main_log[i].result # "ok" /\ main_log[i].n < MAX_MODEL_LOAD_RETRIES - 1) =>
                  /\ i = Len(main_log) => main_pc = "asr_sleep"
                  /\ i < Len(main_log) => main_log[i + 1].op = "sleep"
                  /\ i + 1 < Len(main_log) => main_log[i + 2].op = "attempt"
           /\ (main_log[i].result # "ok" /\ main_log[i].n = MAX_MODEL_LOAD_RETRIES - 1) =>
                  /\ i = Len(main_log)
                  /\ main_pc \in {"asr_raise", "aborted"}
                  /\ main_pc = "aborted" => pending = main_log[i].result
                  /\ asr_model = None
    /\ \A k \in DOMAIN main_log :
           main_log[k].op = "sleep" =>
               /\ k - 1 \in AttemptIdx
               /\ main_log[k - 1].result # "ok"
               /\ main_log[k - 1].n < MAX_MODEL_LOAD_RETRIES - 1
    /\ main_pc = "asr_return" =>
           /\ asr_model = "WhisperModel"
           /\ main_log[Len(main_log)] = Event("attempt", attempt, "ok")
    /\ AsrLoaded => asr_model = "WhisperModel"

\* Two loads have failed, the third attempt has found the download time
\* used up, and the process has ended with that TimeoutError.
C11_Witness ==
    /\ main_pc = "aborted"
    /\ asr_model = None
    /\ Cardinality(AttemptIdx) = MAX_MODEL_LOAD_RETRIES
    /\ main_log[Len(main_log)].result = "TimeoutError"
    /\ pending = "TimeoutError"
    /\ now - start_time >= 2 * MODEL_LOAD_RETRY_DELAY * TicksPerSecond

\* The with block of line 381 has been entered: the capture loop has run
LoopEntered == \E i \in DOMAIN main_log : main_log[i] = Event("open", 0, "ok")

\* C14: when the loop of start() is left, by KeyboardInterrupt or by an
\* exception, the stream is closed before start() returns or raises.  A
\* KeyboardInterrupt makes start() return and the program end normally; an
\* error of opening the stream or of the running stream is raised by start()
\* and the process ends with it.
C14_StreamReleased ==
    /\ [](/\ main_pc \in {"start_returned", "start_raised"} =>
               LET h == main_log[Len(main_log)]
               IN  /\ stream \in {"none", "closed"}
                   /\ LoopEntered => stream = "closed"
                   /\ h.op = "handled"
                   /\ (main_pc = "start_returned") <=> (h.result = "KeyboardInterrupt")
                   /\ main_pc = "start_returned" => pending = "none"
                   /\ main_pc = "start_raised" =>
                          pending = h.result /\ pending \in {"PortAudioError", "Exception"}
          /\ main_pc = "exited" => pending = "none" /\ stream \in {"none", "closed"}
          /\ main_pc = "aborted" => pending # "none" /\ stream \in {"none", "closed"})
    /\ [][/\ main_pc = "start_returned" => main_pc' = "exited"
          /\ main_pc = "start_raised" => main_pc' = "aborted"]_vars

\* Ctrl+C after a second of capture: the stream is closed and start() has
\* returned.
C14_Witness ==
    /\ main_pc = "start_returned"
    /\ stream = "closed"
    /\ \E i \in DOMAIN main_log : main_log[i] = Event("sd.sleep", 0, "ok")
    /\ main_log[Len(main_log)] = Event("handled", 0, "KeyboardInterrupt")

\* C12: process_audio reads the buffer for the clip while it holds
\* buffer_lock, the lock held by the append, and buffer_lock is not held
\* while the ASR call runs.
C12_SnapshotUnderLock ==
    /\ cycle_log.read_lock # "none" => cycle_log.read_lock = "held"
    /\ pc = "transcribe" => buffer_lock = "free"

\* C13: every trigger writes a clip and a metadata record of its own, and no
\* trigger writes over the clip or the record of an earlier trigger, in wake
\* word mode as in continuous mode.
C13_AppendOnly ==
    /\ overwritten = {}
    /\ cycle_log.clip # <<>> =>
           cycle_log.name \in files /\ cycle_log.name \in sidecars

\* The step in which is_speech runs
SpeechStep == pc = "is_speech" /\ pc' = "return"

\* C15: is_speech returns true exactly when the five conditions hold: rms
\* above the threshold, speech-band energy above the threshold, no periodic
\* echo, no feedback spike, no feedback frequency.  A frame whose rms is not
\* above the threshold (the sum of its squares is at most threshold^2 times
\* its length) is not speech, whatever the other four signals are.
\* is_speech changes nothing but its result: the frame, the buffer and the
\* counters are as before.
C15_IsSpeech ==
    /\ [](pc = "return" =>
            /\ verdict.is_valid_speech \in {"true", "false"}
            /\ (verdict.is_valid_speech = "true") <=>
                   /\ verdict.rms = "true"
                   /\ verdict.speech_energy = "true"
                   /\ verdict.has_periodic_echo = "false"
                   /\ verdict.has_feedback_spikes = "false"
                   /\ verdict.has_feedback_freqs = "false"
            /\ (verdict.speech_energy = "true") <=> (spectrum.speech_energy > NOISE_THRESHOLD)
            /\ Sum([i \in DOMAIN audio_data |-> audio_data[i] * audio_data[i]])
                   <= NOISE_THRESHOLD * NOISE_THRESHOLD * Len(audio_data)
                   => verdict.is_valid_speech = "false")
    /\ [][SpeechStep =>
             UNCHANGED <<audio_data, spectrum, buffer, buffer_lock, speech_frames,
                         silence_frames, last_transcription_time, stream>>]_vars

\* The frame (0, 0.1) has rms 0.0707, and the other four signals in its
\* favour: it is not speech.
C15_Witness ==
    /\ pc = "return"
    /\ audio_data = <<0, 10>>
    /\ verdict = [rms |-> "false", speech_energy |-> "true",
                  has_periodic_echo |-> "false", has_feedback_spikes |-> "false",
                  has_feedback_freqs |-> "false", is_valid_speech |-> "false"]

\* C16: the echo veto fires for every frame whose autocorrelation has at
\* least 3 lags above ECHO_THRESHOLD times its maximum, the spacings between
\* consecutive such lags having std < 0.1 * mean; 3 such lags are enough.
C16_EchoVeto ==
    pc = "return" =>
        LET lags == Ascending(Peaks(Autocorr(audio_data)))
        IN  (Len(lags) >= 3 /\ StdBelowTenthOfMean(Diff(lags))) =>
                verdict.has_periodic_echo = "true"

\* The last n elements of a
LastOf(a, n) == SubSeq(a, Len(a) - n + 1, Len(a))

\* C17: every frame given to audio_callback updates the counters once and
\* is appended to the buffer once, in both modes and with or without a
\* trigger, and both before the trigger is decided: from the decision to the
\* return of the callback the buffer ends with the samples of the frame, and
\* the clip written by a trigger ends with the samples of the frame that
\* caused it.
C17_FrameThenTrigger ==
    /\ pc = "idle" => frame_log.updates = 0 /\ frame_log.appends = 0
    /\ pc \in {"lock", "append"} => frame_log.updates = 1 /\ frame_log.appends = 0
    /\ pc \notin {"idle", "lock", "append"} =>
           /\ frame_log.updates = 1
           /\ frame_log.appends = 1
           /\ frame_log.speech \in {"speech", "silence"}
           /\ LastOf(buffer, Len(audio_data)) = audio_data
    /\ (pc \in {"idle", "lock", "append", "trigger"} \/ frame_log.triggers = 0) =>
           cycle_log.clip = <<>>
    /\ cycle_log.clip # <<>> =>
           /\ Len(cycle_log.clip) = SAMPLE_RATE * BUFFER_DURATION
           /\ LastOf(cycle_log.clip, Len(audio_data)) = audio_data

\* In continuous mode a frame shorter than the buffer has triggered and its
\* samples end the clip, after older samples of earlier frames.
C17_Witness ==
    /\ ~WAKE_WORD_ENABLED
    /\ pc = "transcribe"
    /\ Len(audio_data) < SAMPLE_RATE * BUFFER_DURATION
    /\ cycle_log.clip # <<>>
    /\ cycle_log.clip[Len(cycle_log.clip)] = total_appended
    /\ cycle_log.clip[1] > 0
    /\ cycle_log.clip[1] < audio_data[1]

\* The positions of the capture thread inside process_audio
InCycle == pc \in {"process_audio", "transcribe", "process_command", "send"}

\* C18: a trigger runs persist clip, ASR call, gate, mapper and dispatch at
\* most once each and in that order, inside the callback: a dispatch follows
\* the transcription of the same trigger, no other frame is taken and no
\* second trigger starts meanwhile, and afterwards, on success, rejection or
\* error, the callback returns and the capture of frames goes on.
C18_TriggerSequence ==
    [][/\ (pc = "process_audio" /\ pc' # pc) => pc' \in {"transcribe", "return"}
       /\ (pc = "transcribe" /\ pc' # pc) => pc' \in {"process_command", "return"}
       /\ (pc = "process_command" /\ pc' # pc) => pc' \in {"send", "return"}
       /\ (pc = "send" /\ pc' # pc) => pc' = "return"
       /\ pc' = "send" =>
              /\ cycle_log'.clip # <<>>
              /\ cycle_log'.text = transcribed_text'
              /\ cycle_log'.gate = "pass"
              /\ cycle_log'.calls = <<>>
       /\ InCycle =>
              /\ UNCHANGED <<audio_data, total_appended, buffer, speech_frames,
                             silence_frames>>
              /\ frame_log'.triggers = 1
              /\ Len(cycle_log'.calls) <= 1
       /\ (pc = "return" /\ pc' # pc) =>
              /\ pc' = "idle"
              /\ stream' = "running"
      ]_vars

\* C19: in every state, the end of every audio_callback included and in
\* both modes, the two counters are at least 0, and speech_frames > 0
\* implies silence_frames < int(SILENCE_DURATION * SAMPLE_RATE / CHUNK_SIZE).
C19_CountersInvariant ==
    /\ speech_frames >= 0
    /\ silence_frames >= 0
    /\ speech_frames > 0 =>
           silence_frames < (SILENCE_DURATION * SAMPLE_RATE) \div CHUNK_SIZE

\* A callback ends with speech counted and a silence run one frame short of
\* the threshold.
C19_Witness ==
    /\ pc = "return"
    /\ speech_frames > 0
    /\ silence_frames > 0
    /\ silence_frames + 1 = (SILENCE_DURATION * SAMPLE_RATE) \div CHUNK_SIZE

\* C20: in continuous mode, if frames keep being delivered, time keeps
\* advancing and from some point on every frame is classified as speech,
\* then a transcription is triggered, and triggered again, infinitely often.
C20_TriggeredAgainAndAgain ==
    (   []<>(pc = "lock")
     /\ <>[](frame_log.speech # "silence"))
    => []<>(pc = "process_audio" /\ frame_log.st = "true")

\* a firing on a speech frame, the interval over and speech_frames reset
C20_Witness ==
    /\ ~WAKE_WORD_ENABLED
    /\ pc = "process_audio"
    /\ frame_log.speech = "speech"
    /\ frame_log.st = "true"
    /\ delivered > 0
    /\ speech_frames = 0
    /\ last_transcription_time = now
    /\ now >= CONTINUOUS_TRANSCRIPTION_INTERVAL * TicksPerSecond

====
